---- MODULE Spec2Model ----
(***************************************************************************)
(* Model of the ledger engine of toy_marketplace (src/src/main.rs):        *)
(* handle_transaction folds Deposit / Withdrawl / Dispute / Resolve /      *)
(* ChargeBack records over a client list and a transaction list.           *)
(*                                                                         *)
(* Decimal amounts are modelled as integers (a count of the smallest unit  *)
(* in use); within the bounds below Decimal addition and subtraction are   *)
(* exact, so integer arithmetic computes what the code computes.           *)
(* Option<Decimal> is modelled as a set: {} is None, {a} is Some(a).       *)
(***************************************************************************)
EXTENDS Integers, FiniteSets, Sequences, TLC

VARIABLES
    client_list,       \* ClientList: HashMap<u16, Client>
    transaction_list,  \* TransactionList: HashMap<u32, Transaction>
    last,              \* the transaction given to the handle_transaction call that just returned
    result,            \* what that call returned: "ok", "err" or "panic"; "none" between calls
    prev,              \* both stores as they were when that call began
    steps,             \* number of handle_transaction calls made
    seq,               \* history: progress of a Deposit -> Dispute -> Resolve / ChargeBack run
    dep,               \* history: whether every call so far was a Deposit to one client, and their sum
    seen,              \* history: the client ids of the transactions handled so far
    ok_ids             \* history: the ids of the Deposits and Withdrawls that returned Ok

vars == <<client_list, transaction_list, last, result, prev, steps, seq, dep, seen, ok_ids>>

(* ------------------------------ bounds -------------------------------- *)

MaxSteps == 3
MaxAmount == 1

ClientIds == {1, 2}
TxIds == {1, 2}
\* Amounts are positive: 1..MaxAmount of the smallest unit.
Amounts == 1..MaxAmount

None == {}
Some(a) == {a}
OptAmounts == {None} \cup {Some(a) : a \in Amounts}
\* A meta transaction carries no amount (its amount and disputed fields are
\* never read: the amount used is the target's).
MetaAmounts == {None}

StandardTypes == {"Deposit", "Withdrawl"}
MetaTypes == {"Dispute", "Resolve", "ChargeBack"}
TransactionType == StandardTypes \cup MetaTypes

(* ------------------------------ Client -------------------------------- *)

Client_new(id) ==
    [id |-> id, available_amount |-> 0, held_amount |-> 0,
     total_amount |-> 0, locked |-> FALSE]

\* A deposit that forgets the total.
deposit_available_only(client, a) ==
    [client EXCEPT !.available_amount = @ + a]

deposit(client, a) ==
    [client EXCEPT !.available_amount = @ + a, !.total_amount = @ + a]

\* A withdrawal that forgets the total.
withdraw_available_only(client, a) ==
    [client EXCEPT !.available_amount = @ - a]

\* A withdrawal that takes the amount twice out of available.
withdraw_twice_available(client, a) ==
    [client EXCEPT !.available_amount = @ - a - a, !.total_amount = @ - a]

withdraw(client, a) ==
    [client EXCEPT !.available_amount = @ - a, !.total_amount = @ - a]

\* A hold that takes the amount out of the total as well.
hold_reduces_total(client, a) ==
    [client EXCEPT !.available_amount = @ - a, !.held_amount = @ + a, !.total_amount = @ - a]

hold(client, a) ==
    [client EXCEPT !.available_amount = @ - a, !.held_amount = @ + a]

release(client, a) ==
    [client EXCEPT !.held_amount = @ - a, !.available_amount = @ + a]

\* A freeze that flips the flag instead of setting it.
freeze_toggle(client) ==
    [client EXCEPT !.locked = ~@]

freeze(client) ==
    [client EXCEPT !.locked = TRUE]

(* ---------------------------- Transaction ----------------------------- *)

Transaction(ty, c, id, amt, d) ==
    [transaction_type |-> ty, client_id |-> c, transaction_id |-> id,
     amount |-> amt, disputed |-> d]

\* Transaction::amount: Ok(amount) when the field is Some, Err otherwise.
Transaction_amount(t) ==
    IF t.amount # None
    THEN [ok |-> TRUE, val |-> CHOOSE a \in t.amount : TRUE]
    ELSE [ok |-> FALSE, val |-> 0]

(* ------------------------------ handlers ------------------------------ *)

\* HashMap::insert: adds the key or replaces its value.
Insert(map, k, v) == [x \in DOMAIN map \cup {k} |-> IF x = k THEN v ELSE map[x]]

Outcome(cl, tl, res) == [client_list |-> cl, transaction_list |-> tl, result |-> res]

handle_standard_transaction(transaction, cl, tl) ==
    LET transaction_id == transaction.transaction_id
        tl1 == Insert(tl, transaction_id, transaction)
        t == tl1[transaction_id]
        amt == Transaction_amount(t)
    IN  IF t.client_id \notin DOMAIN cl
        THEN Outcome(cl, tl1, "panic")
        ELSE IF t.transaction_type \notin StandardTypes
        THEN Outcome(cl, tl1, "panic")
        ELSE IF ~amt.ok
        THEN Outcome(cl, tl1, "err")
        ELSE IF t.transaction_type = "Deposit"
        THEN Outcome(Insert(cl, t.client_id, deposit(cl[t.client_id], amt.val)), tl1, "ok")
        ELSE Outcome(Insert(cl, t.client_id, withdraw(cl[t.client_id], amt.val)), tl1, "ok")

\* A Dispute arm that skips a target already marked disputed.
dispute_arm_guarded(target, client) ==
    LET amt == Transaction_amount(target)
    IN  IF target.disputed THEN [client |-> client, result |-> "ok"]
        ELSE IF amt.ok THEN [client |-> hold(client, amt.val), result |-> "ok"]
        ELSE [client |-> client, result |-> "err"]

\* The Dispute arm: hold the target's amount; the target itself is not written.
dispute_arm(target, client) ==
    LET amt == Transaction_amount(target)
    IN  IF amt.ok THEN [client |-> hold(client, amt.val), result |-> "ok"]
        ELSE [client |-> client, result |-> "err"]

\* A Resolve arm that does not look at the target's disputed flag.
resolve_arm_unguarded(target, client) ==
    LET amt == Transaction_amount(target)
    IN  IF amt.ok THEN [client |-> release(client, amt.val), result |-> "ok"]
        ELSE [client |-> client, result |-> "err"]

resolve_arm(target, client) ==
    LET amt == Transaction_amount(target)
    IN  IF target.disputed
        THEN IF amt.ok THEN [client |-> release(client, amt.val), result |-> "ok"]
             ELSE [client |-> client, result |-> "err"]
        ELSE [client |-> client, result |-> "ok"]

\* A ChargeBack arm that takes the amount out of the total only.
chargeback_arm_total_only(target, client) ==
    LET amt == Transaction_amount(target)
    IN  IF target.disputed
        THEN IF amt.ok
             THEN [client |-> freeze([client EXCEPT !.total_amount = @ - amt.val]),
                   result |-> "ok"]
             ELSE [client |-> client, result |-> "err"]
        ELSE [client |-> client, result |-> "ok"]

\* A ChargeBack arm that takes the amount out of held instead of available.
chargeback_arm_from_held(target, client) ==
    LET amt == Transaction_amount(target)
    IN  IF target.disputed
        THEN IF amt.ok
             THEN [client |-> freeze([client EXCEPT !.held_amount = @ - amt.val,
                                                    !.total_amount = @ - amt.val]),
                   result |-> "ok"]
             ELSE [client |-> client, result |-> "err"]
        ELSE [client |-> client, result |-> "ok"]

chargeback_arm(target, client) ==
    LET amt == Transaction_amount(target)
    IN  IF target.disputed
        THEN IF amt.ok THEN [client |-> freeze(withdraw(client, amt.val)), result |-> "ok"]
             ELSE [client |-> client, result |-> "err"]
        ELSE [client |-> client, result |-> "ok"]

\* A meta handler that acts on the account of the target's client.
handle_meta_transaction_on_owner(transaction, cl, tl) ==
    IF transaction.transaction_id \notin DOMAIN tl
    THEN Outcome(cl, tl, "ok")
    ELSE IF tl[transaction.transaction_id].client_id \notin DOMAIN cl
    THEN Outcome(cl, tl, "panic")
    ELSE
        LET target == tl[transaction.transaction_id]
            client == cl[target.client_id]
            arm == CASE transaction.transaction_type = "Dispute" -> dispute_arm(target, client)
                     [] transaction.transaction_type = "Resolve" -> resolve_arm(target, client)
                     [] OTHER -> chargeback_arm(target, client)
        IN  Outcome(Insert(cl, target.client_id, arm.client), tl, arm.result)

handle_meta_transaction(transaction, cl, tl) ==
    IF transaction.transaction_id \notin DOMAIN tl
    THEN Outcome(cl, tl, "ok")
    ELSE IF transaction.client_id \notin DOMAIN cl
    THEN Outcome(cl, tl, "panic")
    ELSE IF transaction.transaction_type \notin MetaTypes
    THEN Outcome(cl, tl, "panic")
    ELSE
        LET target == tl[transaction.transaction_id]
            client == cl[transaction.client_id]
            arm == CASE transaction.transaction_type = "Dispute" -> dispute_arm(target, client)
                     [] transaction.transaction_type = "Resolve" -> resolve_arm(target, client)
                     [] OTHER -> chargeback_arm(target, client)
        IN  Outcome(Insert(cl, transaction.client_id, arm.client), tl, arm.result)

\* No insert at all: a new client gets no account.
add_client_never(transaction, cl) == cl

\* An insert without the contains_key test: an existing account is reset.
add_client_unchecked(transaction, cl) ==
    Insert(cl, transaction.client_id, Client_new(transaction.client_id))

\* The client of the transaction is always added to the client list first.
add_client(transaction, cl) ==
    IF transaction.client_id \notin DOMAIN cl
    THEN Insert(cl, transaction.client_id, Client_new(transaction.client_id))
    ELSE cl

\* A dispatch that sends a Dispute to the standard handler.
handle_transaction_misrouted(transaction, cl, tl) ==
    LET cl1 == add_client(transaction, cl)
    IN  IF transaction.transaction_type \in StandardTypes \cup {"Dispute"}
        THEN handle_standard_transaction(transaction, cl1, tl)
        ELSE handle_meta_transaction(transaction, cl1, tl)

handle_transaction(transaction, cl, tl) ==
    LET cl1 == add_client(transaction, cl)
    IN  IF transaction.transaction_type \in StandardTypes
        THEN handle_standard_transaction(transaction, cl1, tl)
        ELSE handle_meta_transaction(transaction, cl1, tl)

(* --------------------------- state machine ---------------------------- *)

EmptyMap == [x \in {} |-> 0]
NoTransaction == Transaction("none", 0, 0, None, FALSE)
NoClient == Client_new(0)
Stores(cl, tl) == [client_list |-> cl, transaction_list |-> tl]

NoSeq == [stage |-> 0, client_id |-> 0, transaction_id |-> 0, amount |-> 0,
          before_deposit |-> NoClient, before_dispute |-> NoClient, disputes |-> 0]
NoDep == [state |-> "broken", client_id |-> 0, sum |-> 0]

\* History of the runs that start with Deposit(c, tx, a) and go on with
\* consecutive calls by the same client c:
\*   stage 1 after the Deposit (before_deposit is c's account as the Deposit
\*           found it, before_dispute as the Deposit left it),
\*   stage 2 after Deposit -> Dispute(c, tx),
\*   stage 3 after Deposit -> Dispute -> Resolve(c, tx),
\*   stage 4 after Deposit -> Dispute -> ChargeBack(c, tx),
\*   stage 5 after Deposit -> Withdrawl(c, any id, a),
\*   stage 6 after Deposit -> Dispute(c, tx) two or more times;
\* disputes counts the Disputes of the run.
seq_next(s, t, cl, out) ==
    IF t.transaction_type = "Deposit" /\ out.result = "ok"
    THEN [stage |-> 1, client_id |-> t.client_id, transaction_id |-> t.transaction_id,
          amount |-> Transaction_amount(t).val,
          before_deposit |-> IF t.client_id \in DOMAIN cl THEN cl[t.client_id]
                             ELSE Client_new(t.client_id),
          before_dispute |-> out.client_list[t.client_id],
          disputes |-> 0]
    ELSE IF s.stage = 0 \/ t.client_id # s.client_id
    THEN NoSeq
    ELSE IF /\ s.stage = 1
            /\ t.transaction_type = "Withdrawl"
            /\ t.amount = Some(s.amount)
            /\ out.result = "ok"
    THEN [s EXCEPT !.stage = 5]
    ELSE IF t.transaction_id # s.transaction_id
    THEN NoSeq
    ELSE IF s.stage = 1 /\ t.transaction_type = "Dispute"
    THEN [s EXCEPT !.stage = 2, !.disputes = 1]
    ELSE IF s.stage \in {2, 6} /\ t.transaction_type = "Dispute"
    THEN [s EXCEPT !.stage = 6, !.disputes = @ + 1]
    ELSE IF s.stage = 2 /\ t.transaction_type = "Resolve"
    THEN [s EXCEPT !.stage = 3]
    ELSE IF s.stage = 2 /\ t.transaction_type = "ChargeBack"
    THEN [s EXCEPT !.stage = 4]
    ELSE NoSeq

\* History of a run made only of Deposits (with an amount) to one client.
dep_next(d, t, out) ==
    IF /\ t.transaction_type = "Deposit"
       /\ out.result = "ok"
       /\ d.state \in {"fresh", "deposits"}
       /\ d.state = "deposits" => d.client_id = t.client_id
    THEN [state |-> "deposits", client_id |-> t.client_id,
          sum |-> d.sum + Transaction_amount(t).val]
    ELSE NoDep

\* main: both maps start empty.
Init ==
    /\ client_list = EmptyMap
    /\ transaction_list = EmptyMap
    /\ last = NoTransaction
    /\ result = "none"
    /\ prev = Stores(EmptyMap, EmptyMap)
    /\ steps = 0
    /\ seq = NoSeq
    /\ dep = [state |-> "fresh", client_id |-> 0, sum |-> 0]
    /\ seen = {}
    /\ ok_ids = {}

\* One call handle_transaction(t, &mut client_list, &mut transaction_list).
Call(t) ==
    LET out == handle_transaction(t, client_list, transaction_list)
    IN  /\ result = "none"
        /\ client_list' = out.client_list
        /\ transaction_list' = out.transaction_list
        /\ result' = out.result
        /\ last' = t
        /\ prev' = Stores(client_list, transaction_list)
        /\ steps' = steps + 1
        /\ seq' = seq_next(seq, t, client_list, out)
        /\ dep' = dep_next(dep, t, out)
        /\ seen' = seen \cup {t.client_id}
        /\ ok_ids' = IF t.transaction_type \in StandardTypes /\ out.result = "ok"
                     THEN ok_ids \cup {t.transaction_id}
                     ELSE ok_ids

StandardInputs(ty) ==
    {Transaction(ty, c, id, amt, d) :
        c \in ClientIds, id \in TxIds, amt \in OptAmounts, d \in BOOLEAN}

MetaInputs(ty) ==
    {Transaction(ty, c, id, amt, FALSE) :
        c \in ClientIds, id \in TxIds, amt \in MetaAmounts}

Deposit ==
    \E t \in StandardInputs("Deposit") :
        /\ t.transaction_type = "Deposit"
        /\ Call(t)
Withdrawl ==
    \E t \in StandardInputs("Withdrawl") :
        /\ t.transaction_type = "Withdrawl"
        /\ Call(t)
Dispute ==
    \E t \in MetaInputs("Dispute") :
        /\ t.transaction_type = "Dispute"
        /\ Call(t)
Resolve ==
    \E t \in MetaInputs("Resolve") :
        /\ t.transaction_type = "Resolve"
        /\ Call(t)
ChargeBack ==
    \E t \in MetaInputs("ChargeBack") :
        /\ t.transaction_type = "ChargeBack"
        /\ Call(t)

\* main's loop: `handle_transaction(...)?` goes on to the next record only when
\* the call returned Ok; on Err main returns and no further record is handled
\* (at most MaxSteps calls are made).  The transaction was moved into the call
\* and the stores stay as the call left them.
Return ==
    /\ result = "ok"
    /\ steps < MaxSteps
    /\ result' = "none"
    /\ last' = NoTransaction
    /\ prev' = Stores(EmptyMap, EmptyMap)
    /\ seq' = IF seq.stage \in {1, 2, 6} THEN seq ELSE NoSeq
    /\ UNCHANGED <<client_list, transaction_list, steps, dep, seen, ok_ids>>

Next == Deposit \/ Withdrawl \/ Dispute \/ Resolve \/ ChargeBack \/ Return

Spec == Init /\ [][Next]_vars

(* ------------------------------- claims ------------------------------- *)

\* The account of client c in cl; a client with no account yet stands for the
\* account handle_transaction is about to create for it.
Acct(cl, c) == IF c \in DOMAIN cl THEN cl[c] ELSE Client_new(c)

Returned == result # "none"
Before(c) == Acct(prev.client_list, c)
After(c) == Acct(client_list, c)
BalancesKept == \A c \in ClientIds : After(c) = Before(c)
TargetBefore == prev.transaction_list[last.transaction_id]
HasTarget == last.transaction_id \in DOMAIN prev.transaction_list

\* C1: in every account of the client list, after every handle_transaction
\* call of any sequence starting from empty stores, total = available + held.
C1_TotalIsAvailablePlusHeld ==
    \A c \in DOMAIN client_list :
        client_list[c].total_amount
            = client_list[c].available_amount + client_list[c].held_amount

\* C1 witness: an account on which a hold and then an effective ChargeBack acted.
C1_Witness ==
    /\ last.transaction_type = "ChargeBack"
    /\ result = "ok"
    /\ client_list[last.client_id].locked
    /\ client_list[last.client_id].held_amount = 1
    /\ client_list[last.client_id].available_amount = 0 - 1

\* C2: a Dispute whose tx matches a journal entry (holding amount a) lowers the
\* dispute's client's available by a, raises its held by a and keeps its total
\* and locked; Deposit of a on a fresh account then Dispute of it gives
\* available 0, held a, total a, locked false.
C2_DisputeHoldsEntryAmount ==
    /\ (/\ last.transaction_type = "Dispute"
        /\ HasTarget
        /\ TargetBefore.amount # None)
       => LET a == Transaction_amount(TargetBefore).val
              b == Before(last.client_id)
              c == client_list[last.client_id]
          IN  /\ result = "ok"
              /\ c.available_amount = b.available_amount - a
              /\ c.held_amount = b.held_amount + a
              /\ c.total_amount = b.total_amount
              /\ c.locked = b.locked
    /\ (/\ seq.stage = 2
        /\ Returned
        /\ seq.before_dispute = deposit(Client_new(seq.client_id), seq.amount))
       => client_list[seq.client_id]
            = [id |-> seq.client_id, available_amount |-> 0, held_amount |-> seq.amount,
               total_amount |-> seq.amount, locked |-> FALSE]

\* C2 witness: a Dispute has just held a non-zero deposit made on a fresh account.
C2_Witness ==
    /\ last.transaction_type = "Dispute"
    /\ HasTarget
    /\ seq.stage = 2
    /\ seq.amount = 1
    /\ seq.before_dispute = deposit(Client_new(seq.client_id), 1)
    /\ client_list[last.client_id].held_amount = 1

\* C3 (as claimed): after a Dispute is processed (it returned success) whose tx
\* matches a journal entry, that entry's disputed flag is true.
C3_DisputeMarksEntry ==
    (last.transaction_type = "Dispute" /\ HasTarget /\ result = "ok")
        => transaction_list[last.transaction_id].disputed

\* C4 (as claimed): after Deposit(tx, a) -> Dispute(tx) -> Resolve(tx) by one
\* client, available and held are what they were just before the Dispute, and
\* so is total.
C4_ResolveRestoresFunds ==
    (seq.stage = 3)
        => /\ client_list[seq.client_id].available_amount
                = seq.before_dispute.available_amount
           /\ client_list[seq.client_id].held_amount = seq.before_dispute.held_amount
           /\ client_list[seq.client_id].total_amount = seq.before_dispute.total_amount

\* C5 (as claimed): after Deposit(tx, a) -> Dispute(tx) -> ChargeBack(tx) by one
\* client, the account is locked and its total is a less than before the Dispute.
C5_ChargeBackLocksAndDebits ==
    (seq.stage = 4)
        => /\ client_list[seq.client_id].locked
           /\ client_list[seq.client_id].total_amount
                = seq.before_dispute.total_amount - seq.amount

\* C6: a Resolve or ChargeBack whose tx matches a journal entry that is not
\* disputed returns success, leaves every journal entry as it was and every
\* account's available, held, total and locked as they were.
C6_StaleResolveOrChargeBackIsNoOp ==
    (/\ last.transaction_type \in {"Resolve", "ChargeBack"}
     /\ HasTarget
     /\ ~TargetBefore.disputed)
        => /\ result = "ok"
           /\ transaction_list = prev.transaction_list
           /\ \A c \in DOMAIN prev.client_list : client_list[c] = prev.client_list[c]
           /\ BalancesKept

\* C6 witness: Resolve of an undisputed deposit of 1, the balance still 1.
C6_Witness ==
    /\ last.transaction_type = "Resolve"
    /\ HasTarget
    /\ ~TargetBefore.disputed
    /\ TargetBefore.amount = Some(1)
    /\ TargetBefore.client_id = last.client_id
    /\ client_list[last.client_id].available_amount = 1
    /\ client_list[last.client_id].held_amount = 0
    /\ client_list[last.client_id].total_amount = 1

\* C7 (as claimed): a Dispute, Resolve or ChargeBack whose tx matches no journal
\* entry returns success and leaves the whole client list (its key set too) and
\* the whole journal unchanged.
C7_DanglingMetaChangesNothing ==
    (last.transaction_type \in MetaTypes /\ ~HasTarget)
        => /\ result = "ok"
           /\ client_list = prev.client_list
           /\ transaction_list = prev.transaction_list

\* C7 (amended): a Dispute, Resolve or ChargeBack whose tx matches no journal
\* entry returns success, leaves the journal and every existing account
\* unchanged, and adds nothing but a zero, unlocked account for its own client
\* id when that client had none.
C7_DanglingMetaOnlyAddsItsClient ==
    (last.transaction_type \in MetaTypes /\ ~HasTarget)
        => /\ result = "ok"
           /\ transaction_list = prev.transaction_list
           /\ DOMAIN client_list = DOMAIN prev.client_list \cup {last.client_id}
           /\ \A c \in DOMAIN prev.client_list : client_list[c] = prev.client_list[c]
           /\ last.client_id \notin DOMAIN prev.client_list
                => client_list[last.client_id]
                     = [id |-> last.client_id, available_amount |-> 0, held_amount |-> 0,
                        total_amount |-> 0, locked |-> FALSE]

\* C7 witness: a dangling meta transaction of a client that already holds a
\* balance, while another entry is journaled.
C7_Witness ==
    /\ last.transaction_type \in MetaTypes
    /\ ~HasTarget
    /\ last.client_id \in DOMAIN prev.client_list
    /\ prev.client_list[last.client_id].available_amount # 0
    /\ prev.transaction_list # EmptyMap

\* C8: a Deposit with amount a raises its client's available and total by a and
\* keeps held and locked, whether or not its transaction id was used before;
\* after deposits only, all to one client on fresh stores, available = total =
\* the sum of the amounts, held = 0, locked = false.
C8_DepositAddsAmount ==
    /\ (last.transaction_type = "Deposit" /\ last.amount # None)
       => LET a == Transaction_amount(last).val
              b == Before(last.client_id)
              c == client_list[last.client_id]
          IN  /\ result = "ok"
              /\ c.available_amount = b.available_amount + a
              /\ c.total_amount = b.total_amount + a
              /\ c.held_amount = b.held_amount
              /\ c.locked = b.locked
    /\ (dep.state = "deposits")
       => client_list[dep.client_id]
            = [id |-> dep.client_id, available_amount |-> dep.sum, held_amount |-> 0,
               total_amount |-> dep.sum, locked |-> FALSE]

\* C8 witness: the second of two deposits of 1 to one client, reusing the first's id.
C8_Witness ==
    /\ last.transaction_type = "Deposit"
    /\ HasTarget
    /\ TargetBefore.transaction_type = "Deposit"
    /\ dep.state = "deposits"
    /\ dep.sum = 2

\* C9 (as claimed): a Deposit or Withdrawal with no amount returns an error,
\* records no journal entry under its id and changes no account balance.
C9_MissingAmountMutatesNothing ==
    (last.transaction_type \in StandardTypes /\ last.amount = None)
        => /\ result = "err"
           /\ transaction_list = prev.transaction_list
           /\ BalancesKept

\* C10 (as claimed): handle_transaction fails only on a Deposit or Withdrawal
\* that has no amount; in every state reachable by handle_transaction calls
\* (the state a call that returned an error leaves included), a Dispute,
\* Resolve or ChargeBack given to handle_transaction returns success, whatever
\* journal entry it references.
C10_MetaNeverFails ==
    /\ \A ty \in MetaTypes : \A t \in MetaInputs(ty) :
          handle_transaction(t, client_list, transaction_list).result = "ok"
    /\ last.transaction_type \in MetaTypes => result = "ok"
    /\ result = "err" => (last.transaction_type \in StandardTypes /\ last.amount = None)

\* C11: the client list holds an account for a client id exactly when some
\* handled transaction carried that id; the account of a new client starts from
\* available = held = total = 0, locked = false (it shows these values after a
\* first transaction that moves no funds), and no account is ever removed.
C11_AccountsAreTheClientsSeen ==
    /\ DOMAIN client_list = seen
    /\ Returned => DOMAIN prev.client_list \subseteq DOMAIN client_list
    /\ (/\ Returned
        /\ last.client_id \notin DOMAIN prev.client_list
        /\ \/ result = "err"
           \/ last.transaction_type \in MetaTypes /\ ~HasTarget
           \/ last.transaction_type \in {"Resolve", "ChargeBack"}
                /\ HasTarget /\ ~TargetBefore.disputed)
       => client_list[last.client_id]
            = [id |-> last.client_id, available_amount |-> 0, held_amount |-> 0,
               total_amount |-> 0, locked |-> FALSE]

\* C11 witness: a second client appears with a dangling Dispute while the first
\* client's account, made earlier, is still there.
C11_Witness ==
    /\ last.transaction_type = "Dispute"
    /\ ~HasTarget
    /\ last.client_id \notin DOMAIN prev.client_list
    /\ DOMAIN prev.client_list # {}
    /\ seen = ClientIds
    /\ DOMAIN client_list = ClientIds

\* C12: Deposit of a followed at once by Withdrawal of a by the same client
\* brings available and total back to what they were before the Deposit, and
\* held is the same before, between and after.
C12_DepositThenWithdrawalCancels ==
    (seq.stage = 5)
        => LET c == client_list[seq.client_id]
           IN  /\ c.available_amount = seq.before_deposit.available_amount
               /\ c.total_amount = seq.before_deposit.total_amount
               /\ c.held_amount = seq.before_deposit.held_amount
               /\ seq.before_dispute.held_amount = seq.before_deposit.held_amount

\* C12 witness: Deposit of 1 then Withdrawal of 1 on an account that already
\* had a non-zero balance.
C12_Witness ==
    /\ seq.stage = 5
    /\ seq.amount = 1
    /\ seq.before_deposit.available_amount # 0
    /\ last.transaction_type = "Withdrawl"

\* C13 (as claimed): a Dispute, Resolve or ChargeBack adds and removes no
\* journal entry and changes no entry's client, kind or amount; the journal's
\* key set only grows; and the key set is the set of ids of the Deposits and
\* Withdrawals that were handled successfully.
C13_JournalKeysAreSuccessfulStandardIds ==
    /\ (last.transaction_type \in MetaTypes)
       => /\ DOMAIN transaction_list = DOMAIN prev.transaction_list
          /\ \A id \in DOMAIN transaction_list :
                /\ transaction_list[id].client_id = prev.transaction_list[id].client_id
                /\ transaction_list[id].transaction_type
                     = prev.transaction_list[id].transaction_type
                /\ transaction_list[id].amount = prev.transaction_list[id].amount
    /\ Returned => DOMAIN prev.transaction_list \subseteq DOMAIN transaction_list
    /\ DOMAIN transaction_list = ok_ids

\* C14: a transaction changes at most the account of its own client id; a meta
\* transaction of client B that references an entry journaled for client A
\* leaves A's account as it was.
C14_OnlyOwnAccountChanges ==
    Returned
        => /\ DOMAIN client_list \subseteq DOMAIN prev.client_list \cup {last.client_id}
           /\ \A c \in DOMAIN prev.client_list :
                c # last.client_id => client_list[c] = prev.client_list[c]

\* C14 witness: client B disputes a deposit of 1 journaled for client A; the
\* hold lands on B's account.
C14_Witness ==
    /\ last.transaction_type = "Dispute"
    /\ HasTarget
    /\ TargetBefore.client_id # last.client_id
    /\ TargetBefore.amount = Some(1)
    /\ TargetBefore.client_id \in DOMAIN prev.client_list
    /\ client_list[last.client_id].held_amount = 1
    /\ client_list[TargetBefore.client_id].held_amount = 0

\* C15: a ChargeBack whose target entry is disputed (and holds amount a) lowers
\* the chargeback's client's available and total by a, locks the account and
\* keeps its held.
C15_ChargeBackDebitsAndLocks ==
    (/\ last.transaction_type = "ChargeBack"
     /\ HasTarget
     /\ TargetBefore.disputed
     /\ TargetBefore.amount # None)
        => LET a == Transaction_amount(TargetBefore).val
               b == Before(last.client_id)
               c == client_list[last.client_id]
           IN  /\ result = "ok"
               /\ c.available_amount = b.available_amount - a
               /\ c.total_amount = b.total_amount - a
               /\ c.held_amount = b.held_amount
               /\ c.locked

\* C15 witness: an effective ChargeBack of 1 on an unlocked account with held funds.
C15_Witness ==
    /\ last.transaction_type = "ChargeBack"
    /\ HasTarget
    /\ TargetBefore.disputed
    /\ TargetBefore.amount = Some(1)
    /\ ~Before(last.client_id).locked
    /\ Before(last.client_id).held_amount = 1
    /\ client_list[last.client_id].locked

SumHolds(client) == client.total_amount = client.available_amount + client.held_amount

\* A ChargeBack that took effect: its target was disputed and held a non-zero
\* amount, and total = available + held held on the client's account before.
EffectiveChargeBack ==
    /\ last.transaction_type = "ChargeBack"
    /\ HasTarget
    /\ TargetBefore.disputed
    /\ TargetBefore.amount # None
    /\ Transaction_amount(TargetBefore).val # 0
    /\ SumHolds(Before(last.client_id))

\* C16 (as claimed): a ChargeBack that takes effect on an account for which
\* total = available + held held beforehand leaves total # available + held.
C16_ChargeBackBreaksSum ==
    EffectiveChargeBack => ~SumHolds(client_list[last.client_id])

\* C16 (amended): a ChargeBack that takes effect on an account for which
\* total = available + held held beforehand keeps that equality: it changes the
\* account (available is lower by the non-zero amount) and total = available +
\* held still holds afterwards.
C16_ChargeBackKeepsSum ==
    EffectiveChargeBack
        => /\ SumHolds(client_list[last.client_id])
           /\ client_list[last.client_id].available_amount
                < Before(last.client_id).available_amount

\* C16 witness: an effective ChargeBack of 1 on an account with 1 held.
C16_Witness ==
    /\ EffectiveChargeBack
    /\ result = "ok"
    /\ Before(last.client_id).held_amount = 1
    /\ client_list[last.client_id].total_amount = Before(last.client_id).total_amount - 1

\* C17: every Dispute of the same tx holds the entry's amount again: after a
\* Deposit of a and then n Disputes of it (and nothing else) held is n*a higher
\* and available n*a lower than just after the Deposit, total unchanged.
C17_RepeatedDisputeHoldsAgain ==
    (seq.stage \in {2, 6})
        => LET c == client_list[seq.client_id]
               n == seq.disputes
           IN  /\ c.held_amount = seq.before_dispute.held_amount + n * seq.amount
               /\ c.available_amount = seq.before_dispute.available_amount - n * seq.amount
               /\ c.total_amount = seq.before_dispute.total_amount

\* C17 witness: the second Dispute of a deposit of 1 has just returned.
C17_Witness ==
    /\ seq.stage = 6
    /\ seq.disputes >= 2
    /\ seq.amount = 1
    /\ last.transaction_type = "Dispute"
    /\ client_list[seq.client_id].held_amount = 2

\* C18 (as claimed): a Deposit or Withdrawal (with an amount) that reuses a
\* transaction id already in the journal is not rejected: it applies its
\* balance change and replaces the entry of that id with its own client, kind
\* and amount and with disputed = false.
C18_ReusedIdReplacesEntry ==
    (/\ last.transaction_type \in StandardTypes
     /\ HasTarget
     /\ last.amount # None)
        => LET a == Transaction_amount(last).val
               d == IF last.transaction_type = "Deposit" THEN a ELSE 0 - a
               b == Before(last.client_id)
               c == client_list[last.client_id]
           IN  /\ result = "ok"
               /\ c.available_amount = b.available_amount + d
               /\ c.total_amount = b.total_amount + d
               /\ transaction_list[last.transaction_id]
                    = [transaction_type |-> last.transaction_type,
                       client_id |-> last.client_id,
                       transaction_id |-> last.transaction_id,
                       amount |-> last.amount,
                       disputed |-> FALSE]

\* C19: a locked account stays locked through every later transaction, and an
\* account becomes locked only by a ChargeBack of its own client whose target
\* entry is disputed.
C19_LockedStaysLocked ==
    Returned
        => \A c \in DOMAIN client_list :
              /\ Before(c).locked => client_list[c].locked
              /\ (~Before(c).locked /\ client_list[c].locked)
                    => /\ last.transaction_type = "ChargeBack"
                       /\ last.client_id = c
                       /\ HasTarget
                       /\ TargetBefore.disputed

\* C19 witness: a transaction other than a ChargeBack has just been handled for
\* an account that was locked before it, and the account is still locked.
C19_Witness ==
    /\ last.transaction_type \in {"Deposit", "Withdrawl", "Dispute", "Resolve"}
    /\ result = "ok"
    /\ last.client_id \in DOMAIN prev.client_list
    /\ prev.client_list[last.client_id].locked
    /\ client_list[last.client_id].locked

\* C20: no call panics: the account lookups find the account of the
\* transaction's client, the lookup after the journal insert finds the entry,
\* and neither handler is given a transaction of the other kind.
C20_NeverPanics ==
    /\ result # "panic"
    /\ Returned => last.client_id \in DOMAIN client_list
    /\ (Returned /\ last.transaction_type \in StandardTypes)
          => last.transaction_id \in DOMAIN transaction_list

\* C20 witness: a meta transaction with a journaled target, sent by a client
\* that had no account when the call began, returned Ok.
C20_Witness ==
    /\ last.transaction_type \in MetaTypes
    /\ HasTarget
    /\ last.client_id \notin DOMAIN prev.client_list
    /\ result = "ok"

====
